---- MODULE Spec2Model ----
(***************************************************************************)
(* ZXP Manager: the notification centre (src/src/message.rs), the archive  *)
(* installer and plugin remover (src/src/file_operations.rs), the manifest *)
(* parser (src/src/data_operations.rs) and the two UI handlers that drive  *)
(* them (src/src/components/sidebar.rs, plugins_panel.rs).                 *)
(*                                                                         *)
(* Strings that the code inspects (file names, bundle identifiers) are     *)
(* sequences of one-character strings; opaque strings are TLA+ strings.    *)
(***************************************************************************)
EXTENDS Integers, Sequences, FiniteSets, TLC

VARIABLES
    MESSAGE,               \* message.rs:21  the notification slot
    MESSAGE_CANCEL_TOKEN,  \* message.rs:28  0 = None, i = token of timer task i
    tasks,                 \* the timer tasks spawned at message.rs:69, in spawn order
    refresh,               \* the Signal<bool> the handlers toggle (sidebar.rs:7)
    fs,                    \* the filesystem: path -> node
    last,                  \* history: the step that produced this state
    posted,                \* history: the Message written by the latest show_message
    REFRESH_TRIGGER,       \* message.rs:31  the global refresh flag
    plugins,               \* plugins_panel.rs:12  the value of the scan resource
    parsed,                \* history: what the latest parse_manifest_xml returned
    observed               \* history: the values of the refresh token and of the
                           \* global flag when the scan resource ran last, and
                           \* whether each was toggled since

vars == <<MESSAGE, MESSAGE_CANCEL_TOKEN, tasks, refresh, fs, last, posted,
          REFRESH_TRIGGER, plugins, parsed, observed>>

\* the steps of the notification centre and of install and remove leave the
\* scan resource, the global flag and the parse history alone
ScanUnchanged == UNCHANGED <<REFRESH_TRIGGER, plugins, parsed>>
RestUnchanged == ScanUnchanged /\ UNCHANGED observed

\* a refresh was signalled: what the resource read is out of date
Signalled == observed' = [observed EXCEPT !.stale = TRUE]

----------------------------------------------------------------------------
(* Bounds *)

MaxPosts == 3      \* timer tasks spawned in one behaviour

----------------------------------------------------------------------------
(* message.rs: the notification centre *)

MessageType == {"Success", "Error", "Info", "None"}

\* A message text is the sequence of the pieces format! joins; String::new()
\* is the empty sequence.
Cleared == [content |-> <<>>, msg_type |-> "None"]

\* message.rs:71-76
SecsSuccess == 3
SecsError == 4
SecsInfo == 5
SecsNone == 0

timeout_secs(msg_type) ==
    CASE msg_type = "Success" -> SecsSuccess
      [] msg_type = "Error"   -> SecsError
      [] msg_type = "Info"    -> SecsInfo
      [] msg_type = "None"    -> SecsNone

\* A timer task is the async block of message.rs:69-99.  pc "spawned": not yet
\* polled; "sleeping": suspended in select! with `remaining` seconds of its
\* sleep left; "done": a branch of select! has run.  `cancelled` is the state
\* of the CancellationToken the task shares with MESSAGE_CANCEL_TOKEN.
NewTask(msg_type) ==
    [msg_type |-> msg_type, pc |-> "spawned", remaining |-> 0, cancelled |-> FALSE]

Pending(t) == t.pc # "done"

\* message.rs:53-56  existing_token.cancel()
CancelExisting(ts, token) ==
    IF token # 0
    THEN [ts EXCEPT ![token].cancelled = TRUE]
    ELSE ts

\* message.rs:50-100  show_message, as a function of the notification state
\* <<MESSAGE, MESSAGE_CANCEL_TOKEN, tasks>>
show_message(st, content, msg_type) ==
    << [content |-> content, msg_type |-> msg_type],
       Len(st[3]) + 1,
       Append(CancelExisting(st[3], st[2]), NewTask(msg_type)) >>

show_error(st, content) == show_message(st, content, "Error")
show_success(st, content) == show_message(st, content, "Success")
show_info(st, content) == show_message(st, content, "Info")

NotifState == <<MESSAGE, MESSAGE_CANCEL_TOKEN, tasks>>

SetNotif(st) ==
    /\ MESSAGE' = st[1]
    /\ MESSAGE_CANCEL_TOKEN' = st[2]
    /\ tasks' = st[3]

\* The history record of a step: the operation, its input (an index into
\* Archives or RemovePaths, a task number, 0 otherwise), the injected I/O
\* failure, the result, the path an install returned, and whether the step
\* repeats the archive of an immediately preceding successful install.
Step(op, arg, fault, result, path, repeat) ==
    [op |-> op, arg |-> arg, fault |-> fault, result |-> result, path |-> path,
     repeat |-> repeat]

Quiet(op, arg, result) == Step(op, arg, "none", result, <<>>, FALSE)

\* sidebar.rs:70, 77, 84  the texts of the test buttons
TestText(b) ==
    CASE b = "Success" -> <<"Test success message - should disappear in 3 seconds">>
      [] b = "Error"   -> <<"Test error message - should disappear in 4 seconds">>
      [] b = "Info"    -> <<"Test info message - should disappear in 5 seconds">>

\* sidebar.rs:65-88  the three test buttons
TestButton ==
    /\ Len(tasks) < MaxPosts
    /\ \E b \in {"Success", "Error", "Info"} :
        \E st \in {CASE b = "Success" -> show_success(NotifState, TestText(b))
                     [] b = "Error"   -> show_error(NotifState, TestText(b))
                     [] b = "Info"    -> show_info(NotifState, TestText(b))} :
            /\ SetNotif(st)
            /\ posted' = st[1]
            /\ last' = Quiet("post", 0, b)
    /\ UNCHANGED <<refresh, fs>>
    /\ RestUnchanged

\* message.rs:82  time passes: every running sleep gets one second closer
Tick ==
    /\ \E i \in 1..Len(tasks) : tasks[i].pc = "sleeping" /\ tasks[i].remaining > 0
    /\ tasks' = [i \in 1..Len(tasks) |->
                    IF tasks[i].pc = "sleeping" /\ tasks[i].remaining > 0
                    THEN [tasks[i] EXCEPT !.remaining = @ - 1]
                    ELSE tasks[i]]
    /\ last' = Quiet("tick", 0, "")
    /\ UNCHANGED <<MESSAGE, MESSAGE_CANCEL_TOKEN, refresh, fs, posted>>
    /\ RestUnchanged

\* message.rs:84-89  branch A of select!
BranchA(i) ==
    /\ MESSAGE' = Cleared
    /\ MESSAGE_CANCEL_TOKEN' = 0
    /\ tasks' = [tasks EXCEPT ![i].pc = "done"]
    /\ last' = Quiet("timer", i, "A")

\* message.rs:93-97  branch B of select!
BranchB(i) ==
    /\ tasks' = [tasks EXCEPT ![i].pc = "done"]
    /\ last' = Quiet("timer", i, "B")
    /\ UNCHANGED <<MESSAGE, MESSAGE_CANCEL_TOKEN>>

\* message.rs:69-99  one poll of timer task i by the scheduler.  The first poll
\* creates the sleep (its deadline counts from this poll) and polls both
\* branches; a later poll happens after the task was woken by its timer or by
\* the token.  select! without `biased;` polls its branches in random order,
\* so when both are ready either one runs.
TimerTask(i) ==
    /\ i \in 1..Len(tasks)
    /\ LET t == tasks[i]
           sleepReady == IF t.pc = "spawned" THEN timeout_secs(t.msg_type) = 0
                                              ELSE t.remaining = 0
       IN  /\ Pending(t)
           /\ \/ /\ sleepReady
                 /\ BranchA(i)
              \/ /\ t.cancelled
                 /\ BranchB(i)
              \/ /\ t.pc = "spawned"
                 /\ ~sleepReady /\ ~t.cancelled
                 /\ tasks' = [tasks EXCEPT ![i].pc = "sleeping",
                                           ![i].remaining = timeout_secs(t.msg_type)]
                 /\ last' = Quiet("timer", i, "pending")
                 /\ UNCHANGED <<MESSAGE, MESSAGE_CANCEL_TOKEN>>
    /\ UNCHANGED <<refresh, fs, posted>>
    /\ RestUnchanged

RunTimer == \E i \in 1..Len(tasks) : TimerTask(i)

----------------------------------------------------------------------------
(* Strings the code inspects, as sequences of characters *)

RECURSIVE Str(_)
\* the opaque string a character sequence spells
Str(cs) == IF cs = <<>> THEN "" ELSE cs[1] \o Str(Tail(cs))

UpperChars == <<"A","B","C","D","E","F","G","H","I","J","K","L","M",
                "N","O","P","Q","R","S","T","U","V","W","X","Y","Z">>
LowerChars == <<"a","b","c","d","e","f","g","h","i","j","k","l","m",
                "n","o","p","q","r","s","t","u","v","w","x","y","z">>

\* file_operations.rs:135  str::to_lowercase
to_lowercase(cs) ==
    [i \in 1..Len(cs) |->
        IF \E k \in 1..Len(UpperChars) : UpperChars[k] = cs[i]
        THEN LowerChars[CHOOSE k \in 1..Len(UpperChars) : UpperChars[k] = cs[i]]
        ELSE cs[i]]

\* file_operations.rs:133  Path::extension of a file name: the part after the
\* last dot, none when there is no dot or the only dot leads the name
extension(name) ==
    LET dots == {i \in 2..Len(name) : name[i] = "."}
    IN  IF dots = {}
        THEN [some |-> FALSE, ext |-> <<>>]
        ELSE LET d == CHOOSE i \in dots : \A j \in dots : j <= i
             IN  [some |-> TRUE, ext |-> SubSeq(name, d + 1, Len(name))]

Zxp == <<"z","x","p">>

\* file_operations.rs:134-136  the closure applied to the extension
is_zxp(e) == IF e.some THEN to_lowercase(e.ext) = Zxp ELSE FALSE

\* file_operations.rs:130-137
is_valid_zxp_extension(name) == is_zxp(extension(name))

PanelMarker == <<".","p","a","n","e","l">>

\* file_operations.rs:166-170  bundle_id.split(".panel").next()
split_panel_first(id) ==
    LET n == Len(PanelMarker)
        hits == {i \in 1..Len(id) : i + n - 1 <= Len(id)
                                    /\ SubSeq(id, i, i + n - 1) = PanelMarker}
    IN  IF hits = {}
        THEN id
        ELSE SubSeq(id, 1, (CHOOSE i \in hits : \A j \in hits : i <= j) - 1)

----------------------------------------------------------------------------
(* Paths and the filesystem *)

\* A path is the sequence of its components below "/".
\* file_operations.rs:83
CepRoot == <<"Library", "Application Support", "Adobe", "CEP", "extensions">>

\* file_operations.rs:153-154  std::env::temp_dir().join("temp_manifest.xml")
TempDir == <<"tmp">>
TempManifest == TempDir \o <<"temp_manifest.xml">>

\* file_operations.rs:142 and data_operations.rs:94
ManifestRel == <<"CSXS", "manifest.xml">>

RECURSIVE SplitSlash(_, _)
\* the components of a character sequence: the pieces between "/", `cur` being
\* the piece under construction; empty pieces and "." are no components
SplitSlash(cs, cur) ==
    LET piece == IF cur = <<>> \/ cur = <<".">> THEN <<>> ELSE <<Str(cur)>>
    IN  IF cs = <<>> THEN piece
        ELSE IF cs[1] = "/" THEN piece \o SplitSlash(Tail(cs), <<>>)
        ELSE SplitSlash(Tail(cs), Append(cur, cs[1]))

\* file_operations.rs:84  Path::join: an absolute argument replaces the base
PathJoin(base, cs) ==
    IF cs # <<>> /\ cs[1] = "/"
    THEN SplitSlash(cs, <<>>)
    ELSE base \o SplitSlash(cs, <<>>)

RECURSIVE Resolve(_)
\* what the OS makes of a path: ".." steps to the parent ("/" is its own parent)
Resolve(p) ==
    IF p = <<>> THEN <<>>
    ELSE LET r == Resolve(SubSeq(p, 1, Len(p) - 1))
             c == p[Len(p)]
         IN  IF c = ".."
             THEN (IF r = <<>> THEN <<>> ELSE SubSeq(r, 1, Len(r) - 1))
             ELSE Append(r, c)

IsPrefix(p, q) == Len(p) <= Len(q) /\ SubSeq(q, 1, Len(p)) = p

Parent(p) == SubSeq(p, 1, Len(p) - 1)

DirNode == [kind |-> "dir", data |-> <<>>]
FileNode(data) == [kind |-> "file", data |-> data]

Exists(f, p) == p = <<>> \/ p \in DOMAIN f
IsDir(f, p) == p = <<>> \/ (p \in DOMAIN f /\ f[p].kind = "dir")
IsFile(f, p) == p \in DOMAIN f /\ f[p].kind = "file"

Put(f, p, node) == [q \in DOMAIN f \cup {p} |-> IF q = p THEN node ELSE f[q]]

Prefixes(p) == {SubSeq(p, 1, k) : k \in 1..Len(p)}

\* the directories `pre` made where they are missing
MakeDirs(f, pre) ==
    IF \E q \in pre : IsFile(f, q)
    THEN [ok |-> FALSE, fs |-> f]
    ELSE [ok |-> TRUE,
          fs |-> [q \in DOMAIN f \cup pre |-> IF q \in DOMAIN f THEN f[q] ELSE DirNode]]

\* std::fs::create_dir_all: fails when a component of the path is a file
create_dir_all(f, path) == MakeDirs(f, Prefixes(Resolve(path)))

\* a write that refuses to replace an existing file (File::create_new)
WriteAtNew(f, p, data) ==
    IF p = <<>> \/ ~IsDir(f, Parent(p)) \/ Exists(f, p)
    THEN [ok |-> FALSE, fs |-> f]
    ELSE [ok |-> TRUE, fs |-> Put(f, p, FileNode(data))]

WriteAt(f, p, data) ==
    IF p = <<>> \/ ~IsDir(f, Parent(p)) \/ IsDir(f, p)
    THEN [ok |-> FALSE, fs |-> f]
    ELSE [ok |-> TRUE, fs |-> Put(f, p, FileNode(data))]

\* std::fs::write / File::create + copy: the parent must be a directory and the
\* path itself must not be one; an existing file is truncated and rewritten
write_file(f, path, data) == WriteAt(f, Resolve(path), data)

RemoveAt(f, p) == IF IsFile(f, p) THEN [q \in DOMAIN f \ {p} |-> f[q]] ELSE f

\* std::fs::remove_file
remove_file(f, path) == RemoveAt(f, Resolve(path))

RemoveBelow(f, p) == [q \in {r \in DOMAIN f : ~IsPrefix(p, r)} |-> f[q]]

\* std::fs::remove_dir_all: the directory and everything below it
remove_dir_all(f, path) == RemoveBelow(f, Resolve(path))

----------------------------------------------------------------------------
(* data_operations.rs: the manifest parser *)

\* A document is the sequence of events quick_xml reads from it.  An event is
\* [kind, name, attrs]: kind "Start" (<name ...>), "Empty" (<name .../>), "End",
\* "Text", or "Err" (markup the reader rejects).  An attribute is
\* [key, value, bad]; `bad` marks one the attribute iterator rejects.
Ev(kind, name, attrs) == [kind |-> kind, name |-> name, attrs |-> attrs]
Attr(key, value) == [key |-> key, value |-> value, bad |-> FALSE]
\* data_operations.rs:138  an attribute the iterator fails on
BadAttr == [key |-> "", value |-> <<>>, bad |-> TRUE]

Unknown == <<"U","n","k","n","o","w","n">>

NoInfo == [bundle_id |-> <<>>, name |-> <<>>, version |-> <<>>]

RECURSIVE read_attributes(_, _)
\* data_operations.rs:137-151  the loop over e.attributes(); acc.ok turns FALSE at
\* the first attribute that fails to decode
read_attributes(attrs, acc) ==
    IF attrs = <<>> \/ ~acc.ok THEN acc
    ELSE LET a == attrs[1]
         IN  IF a.bad THEN [acc EXCEPT !.ok = FALSE]
             ELSE read_attributes(Tail(attrs),
                    CASE a.key = "ExtensionBundleId" ->
                            [acc EXCEPT !.info.bundle_id = a.value]
                      [] a.key = "ExtensionBundleName" ->
                            [acc EXCEPT !.info.name = a.value]
                      [] a.key = "ExtensionBundleVersion" ->
                            [acc EXCEPT !.info.version = a.value]
                      [] OTHER -> acc)

RECURSIVE read_events(_, _)
\* data_operations.rs:130-156  the event loop, up to Eof (the end of the sequence)
read_events(doc, acc) ==
    IF doc = <<>> \/ ~acc.ok THEN acc
    ELSE LET e == doc[1]
         IN  IF e.kind = "Err" THEN [acc EXCEPT !.ok = FALSE]
             ELSE IF e.kind = "Start" /\ e.name = "ExtensionManifest"
                  THEN read_events(Tail(doc), read_attributes(e.attrs, acc))
                  ELSE read_events(Tail(doc), acc)

ParseErr(e) == [ok |-> FALSE, err |-> e, info |-> NoInfo]

\* a parser that returns the name and the version as it read them
parse_result_as_read(r) ==
    IF ~r.ok THEN ParseErr("InvalidManifest")
    ELSE IF r.info.bundle_id = <<>> THEN ParseErr("InvalidManifest")
    ELSE [ok |-> TRUE, err |-> "", info |-> r.info]

\* data_operations.rs:158-171  what follows the event loop; r is its outcome
parse_result(r) ==
    IF ~r.ok THEN ParseErr("InvalidManifest")
    ELSE IF r.info.bundle_id = <<>> THEN ParseErr("InvalidManifest")
    ELSE [ok |-> TRUE, err |-> "",
          info |-> [bundle_id |-> r.info.bundle_id,
                    name |-> IF r.info.name = <<>> THEN r.info.bundle_id ELSE r.info.name,
                    version |-> IF r.info.version = <<>> THEN Unknown ELSE r.info.version]]

\* data_operations.rs:121-171  parse_manifest_xml of the document `xml_content`
parse_manifest_str(xml_content) ==
    parse_result(read_events(xml_content, [ok |-> TRUE, info |-> NoInfo]))

\* data_operations.rs:117-119  parse_manifest_xml of the file at `path`:
\* fs::read_to_string, then the parse
parse_manifest_xml(f, path) ==
    IF ~IsFile(f, Resolve(path)) THEN ParseErr("ManifestNotFound")
    ELSE parse_manifest_str(f[Resolve(path)].data)

----------------------------------------------------------------------------
(* file_operations.rs: install and remove *)

\* file_operations.rs:20-31  Display for FileOperationError
Display(e) ==
    CASE e = "DialogCancelled"  -> "File dialog was cancelled"
      [] e = "InvalidExtension" -> "File must have .zxp extension"
      [] e = "FileNotFound"     -> "File not found"
      [] e = "PermissionDenied" -> "Permission denied"
      [] e = "InvalidZip"       -> "Invalid or corrupt ZXP file"
      [] e = "ExtractError"     -> "Failed to extract ZXP file"

\* An archive is the file the user picked: [name, exists, zip, entries]; `name`
\* is its file name, `zip` whether ZipArchive::new can index it, `entries` its
\* entries in archive order, each [name, dir, data] with `name` the components
\* of the entry's path and `dir` set for a directory entry.
Entry(name, data) == [name |-> name, dir |-> FALSE, data |-> data]
DirEntry(name) == [name |-> name, dir |-> TRUE, data |-> <<>>]

\* zip::read::ZipFile::enclosed_name, which ZipArchive::extract applies to every
\* entry (file_operations.rs:96): none for a path that steps above its start
RECURSIVE Depths(_, _)
Depths(name, d) ==
    IF name = <<>> THEN {d}
    ELSE LET d2 == IF name[1] = ".." THEN d - 1 ELSE d + 1
         IN  {d} \cup Depths(Tail(name), d2)

\* an extraction that takes every entry path as it comes
enclosed_name_any(name) == TRUE

enclosed_name(name) == \A d \in Depths(name, 0) : d >= 0

\* The I/O failures the code maps: "open" (File::open, :73), "read"
\* (read_to_string, :148), "tmp_write" (fs::write, :156), "mkdir_denied" and
\* "mkdir_other" (create_dir_all, :89), "extract_io" (an I/O error of
\* archive.extract once it has written its first entry, :96).
InstallFaults == {"none", "open", "read", "tmp_write", "mkdir_denied",
                  "mkdir_other", "extract_io"}

FaultEntry(fault) == IF fault = "extract_io" THEN 2 ELSE 0

\* `struck` in a result: the call ended on the injected failure
IdErr(e, f, struck) == [ok |-> FALSE, err |-> e, id |-> <<>>, fs |-> f, struck |-> struck]

\* file_operations.rs:159-172  the parse of the temporary copy, its clean-up
\* and the truncation at ".panel"
id_from_info(plugin_info, f) ==
    IF ~plugin_info.ok THEN IdErr("InvalidZip", f, FALSE)
    ELSE [ok |-> TRUE, err |-> "", struck |-> FALSE,
          id |-> split_panel_first(plugin_info.info.bundle_id),
          fs |-> remove_file(f, TempManifest)]

\* file_operations.rs:156-160  w is the outcome of fs::write(&temp_manifest)
id_from_temp(w, f, fault) ==
    IF ~w.ok THEN IdErr("ExtractError", f, fault = "tmp_write")
    ELSE id_from_info(parse_manifest_xml(w.fs, TempManifest), w.fs)

\* file_operations.rs:139-173  extract_extension_id_from_zip
extract_extension_id_from_zip(entries, f, fault) ==
    IF \A i \in 1..Len(entries) : entries[i].name # ManifestRel
    THEN IdErr("InvalidZip", f, FALSE)
    ELSE IF fault = "read" THEN IdErr("InvalidZip", f, TRUE)
    ELSE id_from_temp(
            IF fault = "tmp_write"
            THEN [ok |-> FALSE, fs |-> f]
            ELSE write_file(f, TempManifest,
                     entries[CHOOSE i \in 1..Len(entries) : entries[i].name = ManifestRel].data),
            f, fault)

ExtractEnd(ok, f, struck) == [ok |-> ok, fs |-> f, struck |-> struck]

RECURSIVE extract(_, _, _, _, _)

\* one entry written (w is the outcome), the rest follows
extract_rest(entries, k, target_dir, w, fault) ==
    IF ~w.ok THEN ExtractEnd(FALSE, w.fs, FALSE)
    ELSE extract(entries, k + 1, target_dir, w.fs, fault)

\* the directories of entry k made (d is the outcome), the entry is written
extract_entry(entries, k, target_dir, f, d, fault) ==
    IF ~d.ok THEN ExtractEnd(FALSE, f, FALSE)
    ELSE extract_rest(entries, k, target_dir,
            IF entries[k].dir THEN d
            ELSE write_file(d.fs, target_dir \o entries[k].name, entries[k].data),
            fault)

\* file_operations.rs:96  ZipArchive::extract(target_dir): the entries in order,
\* from entry k on; the first failure ends it and what was written stays
extract(entries, k, target_dir, f, fault) ==
    IF k > Len(entries) THEN ExtractEnd(TRUE, f, FALSE)
    ELSE IF ~enclosed_name(entries[k].name) THEN ExtractEnd(FALSE, f, FALSE)
    ELSE IF FaultEntry(fault) = k THEN ExtractEnd(FALSE, f, TRUE)
    ELSE extract_entry(entries, k, target_dir, f,
            create_dir_all(f, IF entries[k].dir
                              THEN target_dir \o entries[k].name
                              ELSE Parent(target_dir \o entries[k].name)),
            fault)

InstallErr(e, f, struck) == [result |-> e, path |-> <<>>, fs |-> f, struck |-> struck]

\* file_operations.rs:95-100  e is the outcome of archive.extract
install_extracted(target_dir, e) ==
    IF ~e.ok THEN InstallErr("ExtractError", e.fs, e.struck)
    ELSE [result |-> "Ok", path |-> target_dir, fs |-> e.fs, struck |-> FALSE]

\* file_operations.rs:88-96  d is the outcome of create_dir_all(&target_dir)
install_into(a, target_dir, d, fault) ==
    IF ~d.ok
    THEN InstallErr(IF fault = "mkdir_denied" THEN "PermissionDenied" ELSE "ExtractError",
                    d.fs, fault \in {"mkdir_denied", "mkdir_other"})
    ELSE install_extracted(target_dir, extract(a.entries, 1, target_dir, d.fs, fault))

\* file_operations.rs:82-89  the target directory and its creation
install_at(a, target_dir, f, fault) ==
    install_into(a, target_dir,
                 IF fault \in {"mkdir_denied", "mkdir_other"}
                 THEN [ok |-> FALSE, fs |-> f]
                 ELSE create_dir_all(f, target_dir),
                 fault)

\* file_operations.rs:80-84  x is the outcome of extract_extension_id_from_zip
install_with_id(a, x, fault) ==
    IF ~x.ok THEN InstallErr(x.err, x.fs, x.struck)
    ELSE install_at(a, PathJoin(CepRoot, x.id), x.fs, fault)

\* an install that looks at the extension before it looks for the file
install_zxp_ext_first(a, f, fault) ==
    IF ~is_valid_zxp_extension(a.name) THEN InstallErr("InvalidExtension", f, FALSE)
    ELSE IF ~a.exists THEN InstallErr("FileNotFound", f, FALSE)
    ELSE IF fault = "open" THEN InstallErr("FileNotFound", f, TRUE)
    ELSE IF ~a.zip THEN InstallErr("InvalidZip", f, FALSE)
    ELSE install_with_id(a, extract_extension_id_from_zip(a.entries, f, fault), fault)

\* file_operations.rs:54-101  install_zxp
install_zxp(a, f, fault) ==
    IF ~a.exists THEN InstallErr("FileNotFound", f, FALSE)
    ELSE IF ~is_valid_zxp_extension(a.name) THEN InstallErr("InvalidExtension", f, FALSE)
    ELSE IF fault = "open" THEN InstallErr("FileNotFound", f, TRUE)
    ELSE IF ~a.zip THEN InstallErr("InvalidZip", f, FALSE)
    ELSE install_with_id(a, extract_extension_id_from_zip(a.entries, f, fault), fault)

\* The failures of remove_dir_all (file_operations.rs:119-123): a permission
\* error or another I/O error.
RemoveFaults == {"none", "denied", "other"}

\* what a failed remove_dir_all may leave: the tree untouched, or the tree
\* without the files it had already unlinked
PartlyRemoved(f, path) ==
    {f, [q \in {r \in DOMAIN f : ~(IsPrefix(Resolve(path), r) /\ f[r].kind = "file")}
            |-> f[q]]}

\* a remove that skips the is_dir check
remove_plugin_any(plugin_path, f, fault, partial) ==
    IF ~Exists(f, Resolve(plugin_path)) THEN [result |-> "FileNotFound", fs |-> f]
    ELSE IF fault = "denied" THEN [result |-> "PermissionDenied", fs |-> partial]
    ELSE IF fault = "other" THEN [result |-> "ExtractError", fs |-> partial]
    ELSE [result |-> "Ok", fs |-> remove_dir_all(f, plugin_path)]

\* file_operations.rs:103-127  remove_plugin; `partial` is the tree a failing
\* remove_dir_all leaves
remove_plugin(plugin_path, f, fault, partial) ==
    IF ~Exists(f, Resolve(plugin_path)) THEN [result |-> "FileNotFound", fs |-> f]
    ELSE IF ~IsDir(f, Resolve(plugin_path)) THEN [result |-> "InvalidExtension", fs |-> f]
    ELSE IF fault = "denied" THEN [result |-> "PermissionDenied", fs |-> partial]
    ELSE IF fault = "other" THEN [result |-> "ExtractError", fs |-> partial]
    ELSE [result |-> "Ok", fs |-> remove_dir_all(f, plugin_path)]

----------------------------------------------------------------------------
(* The inputs: the files a user can pick and the trees the program starts on *)

ComX == <<"c","o","m",".","x">>
YPanelUi == <<"y",".","p","a","n","e","l",".","u","i">>
V10 == <<"1",".","0">>

Manifest(id) ==
    << Ev("Start", "ExtensionManifest",
          << Attr("ExtensionBundleId", id), Attr("ExtensionBundleVersion", V10) >>),
       Ev("Empty", "ExtensionList", <<>>),
       Ev("End", "ExtensionManifest", <<>>) >>

NoIdManifest ==
    << Ev("Start", "ExtensionManifest", << Attr("ExtensionBundleName", ComX) >>),
       Ev("End", "ExtensionManifest", <<>>) >>

Payload(tag) == << Ev("Text", tag, <<>>) >>

Archive(name, exists, zip, entries) ==
    [name |-> name, exists |-> exists, zip |-> zip, entries |-> entries]

GoodEntries ==
    << Entry(ManifestRel, Manifest(ComX)), Entry(<<"index.js">>, Payload("v1")) >>

Archives ==
    << \* 1: a valid bundle com.x
       Archive(<<"a",".","z","x","p">>, TRUE, TRUE, GoodEntries),
       \* 2: a valid bundle with an upper-case extension, a panel-scoped id and
       \*    a directory entry
       Archive(<<"b",".","Z","X","P">>, TRUE, TRUE,
               << DirEntry(<<"js">>), Entry(<<"js", "main.js">>, Payload("m")),
                  Entry(ManifestRel, Manifest(YPanelUi)) >>),
       \* 3: the next version of bundle com.x
       Archive(<<"a","2",".","z","x","p">>, TRUE, TRUE,
               << Entry(ManifestRel, Manifest(ComX)), Entry(<<"index.js">>, Payload("v2")) >>),
       \* 4, 5: paths that do not exist
       Archive(<<"a",".","z","x","p">>, FALSE, FALSE, <<>>),
       Archive(<<"c",".","z","i","p">>, FALSE, FALSE, <<>>),
       \* 6, 7: a valid zip under another extension, and under none
       Archive(<<"c",".","z","i","p">>, TRUE, TRUE, GoodEntries),
       Archive(<<"p","l","u","g">>, TRUE, TRUE, GoodEntries),
       \* 8: not a zip
       Archive(<<"d",".","z","x","p">>, TRUE, FALSE, <<>>),
       \* 9: a zip without CSXS/manifest.xml
       Archive(<<"e",".","z","x","p">>, TRUE, TRUE,
               << Entry(<<"index.js">>, Payload("v1")) >>),
       \* 10: a manifest without a bundle id
       Archive(<<"f",".","z","x","p">>, TRUE, TRUE,
               << Entry(ManifestRel, NoIdManifest), Entry(<<"index.js">>, Payload("v1")) >>),
       \* 11: an entry that steps out of the target directory
       Archive(<<"h",".","z","x","p">>, TRUE, TRUE,
               << Entry(ManifestRel, Manifest(ComX)),
                  Entry(<<"..", "evil.js">>, Payload("evil")) >>),
       \* 12: the same below a subdirectory, after entries that are fine
       Archive(<<"i",".","z","x","p">>, TRUE, TRUE,
               GoodEntries \o << Entry(<<"js", "..", "..", "evil.js">>, Payload("evil")) >>),
       \* 13: a stepping-out entry in a zip without a manifest
       Archive(<<"j",".","z","x","p">>, TRUE, TRUE,
               << Entry(<<"..", "evil.js">>, Payload("evil")) >>)
    >>

\* the tree that holds the files `files` (path :> data) and the directories
\* `dirs`, with every directory above them
Tree(files, dirs) ==
    LET leaves == DOMAIN files \cup dirs
        all == UNION {{SubSeq(p, 1, k) : k \in 1..Len(p)} : p \in leaves}
    IN  [p \in all |-> IF p \in DOMAIN files THEN FileNode(files[p]) ELSE DirNode]

OldPlugin == CepRoot \o <<"old">>

\* a machine with one bundle installed and a stray file in the extension root
FsInstalled ==
    Tree((OldPlugin \o ManifestRel) :> Manifest(<<"o","l","d">>)
            @@ (CepRoot \o <<"notes.txt">>) :> Payload("n"),
         {TempDir})

\* a machine on which the extension root does not exist yet
FsFresh == Tree(<< >>, {TempDir, <<"Library">>})

\* the paths remove is asked to delete: two bundle directories, a path that is
\* gone, and a regular file
RemovePaths ==
    << OldPlugin, CepRoot \o <<"com.x">>, CepRoot \o <<"ghost">>,
       CepRoot \o <<"notes.txt">> >>

----------------------------------------------------------------------------
(* install_zxp and remove_plugin called on the filesystem *)

NotifUnchanged == UNCHANGED <<MESSAGE, MESSAGE_CANCEL_TOKEN, tasks, posted>>

Repeats(a) == last.op \in {"install", "install_handler"} /\ last.result = "Ok" /\ last.arg = a

\* an injected failure is one the call runs into
FaultStrikes(r, fault) == fault = "none" \/ r.struck

\* file_operations.rs:54  install_zxp called on any of the archives, with any
\* of the I/O failures it can run into
Install ==
    \E a \in 1..Len(Archives), fault \in InstallFaults :
        \E r \in {install_zxp(Archives[a], fs, fault)} :
            /\ FaultStrikes(r, fault)
            /\ fs' = r.fs
            /\ last' = Step("install", a, fault, r.result, r.path, Repeats(a))
            /\ UNCHANGED refresh
            /\ NotifUnchanged
            /\ RestUnchanged

\* file_operations.rs:103  remove_plugin called on any of the paths
Remove ==
    \E p \in 1..Len(RemovePaths), fault \in RemoveFaults :
        \E partial \in PartlyRemoved(fs, RemovePaths[p]) :
            \E r \in {remove_plugin(RemovePaths[p], fs, fault, partial)} :
                /\ fault = "none" \/ IsDir(fs, RemovePaths[p])
                /\ fs' = r.fs
                /\ last' = Step("remove", p, fault, r.result, <<>>, FALSE)
                /\ UNCHANGED refresh
                /\ NotifUnchanged
                /\ RestUnchanged

----------------------------------------------------------------------------
(* The UI handlers *)

\* file_operations.rs:34-52  select_zxp_file; pick 0 is a dismissed dialog
select_zxp_file(pick) ==
    IF pick = 0 THEN [ok |-> FALSE, err |-> "DialogCancelled"]
    ELSE IF ~is_valid_zxp_extension(Archives[pick].name)
         THEN [ok |-> FALSE, err |-> "InvalidExtension"]
         ELSE [ok |-> TRUE, err |-> ""]

\* what the user does with the dialog: dismiss it (0), or pick the valid
\* bundle, a file that is gone, a zip under another extension, a file that is
\* no zip, or the archive with the stepping-out entry
HandlerPicks == {0, 1, 4, 6, 8, 11}
HandlerFaults == {"none", "mkdir_denied"}

\* a handler that reports every failed selection, the dismissed dialog too
SelectionFailedShown(e) ==
    \E st \in {show_error(NotifState, <<"Installation failed: ", Display(e)>>)} :
        SetNotif(st) /\ posted' = st[1]

\* sidebar.rs:28-31  the Err arm of the selection: a log line, nothing else
SelectionFailed(e) == NotifUnchanged

\* sidebar.rs:9-34  install_handler: the spawned block has no await, so it runs
\* in one poll
InstallHandler ==
    /\ Len(tasks) < MaxPosts
    /\ \E pick \in HandlerPicks, fault \in HandlerFaults :
        \E sel \in {select_zxp_file(pick)} :
            \/ /\ sel.ok
               /\ \E r \in {install_zxp(Archives[pick], fs, fault)} :
                    /\ FaultStrikes(r, fault)
                    /\ fs' = r.fs
                    /\ last' = Step("install_handler", pick, fault, r.result, r.path,
                                    Repeats(pick))
                    /\ \/ /\ r.result = "Ok"
                          /\ \E st \in {show_success(NotifState,
                                                     <<"Plugin installed successfully!">>)} :
                                SetNotif(st) /\ posted' = st[1]
                          /\ refresh' = ~refresh
                          /\ Signalled
                       \/ /\ r.result # "Ok"
                          /\ \E st \in {show_error(NotifState,
                                            <<"Installation failed: ", Display(r.result)>>)} :
                                SetNotif(st) /\ posted' = st[1]
                          /\ UNCHANGED <<refresh, observed>>
            \/ /\ ~sel.ok
               /\ fault = "none"
               /\ last' = Step("install_handler", pick, fault, sel.err, <<>>, FALSE)
               /\ UNCHANGED <<fs, refresh, observed>>
               /\ SelectionFailed(sel.err)
    /\ ScanUnchanged

\* the rows of the plugins table: bundle directories of the last scan, which
\* may be gone by the time the button is clicked
PluginRows == {1, 3}

\* plugins_panel.rs:74  show_error(error, error_msg): the two-argument
\* show_error is not among the sources; it is taken to post an Error
\* notification as the one-argument show_error of message.rs does
show_error_panel(st, content) == show_message(st, content, "Error")

\* plugins_panel.rs:58-78  the remove button's onclick
RemoveHandler ==
    /\ Len(tasks) < MaxPosts
    /\ \E p \in PluginRows, fault \in RemoveFaults :
        \E r \in {remove_plugin(RemovePaths[p], fs, fault, fs)} :
            /\ fault = "none" \/ IsDir(fs, RemovePaths[p])
            /\ fs' = r.fs
            /\ last' = Step("remove_handler", p, fault, r.result, <<>>, FALSE)
            /\ \/ /\ r.result = "Ok"
                  /\ refresh' = ~refresh
                  /\ Signalled
                  /\ NotifUnchanged
               \/ /\ r.result # "Ok"
                  /\ \E st \in {show_error_panel(NotifState,
                                    <<"Failed to remove plugin: ", Display(r.result)>>)} :
                        SetNotif(st) /\ posted' = st[1]
                  /\ UNCHANGED <<refresh, observed>>
    /\ ScanUnchanged

\* message.rs:44-48  trigger_refresh
TriggerRefresh ==
    /\ REFRESH_TRIGGER' = ~REFRESH_TRIGGER
    /\ observed' = [observed EXCEPT !.staleFlag = TRUE]
    /\ last' = Quiet("trigger_refresh", 0, "")
    /\ UNCHANGED <<fs, refresh, plugins, parsed>>
    /\ NotifUnchanged

\* The identifiers a manifest can declare: a plain one, one with a panel
\* suffix, one that starts with the panel marker, the marker alone, one that
\* steps to the parent directory, and an absolute path.
DotDotX == <<".", ".", "/", "x">>
TmpX == <<"/", "t", "m", "p", "/", "x">>
TargetIds == <<ComX, YPanelUi, PanelMarker \o <<".", "u", "i">>, PanelMarker, DotDotX, TmpX>>

\* a valid archive whose manifest declares `id`
BundleOf(id) ==
    Archive(<<"k",".","z","x","p">>, TRUE, TRUE,
            << Entry(ManifestRel, Manifest(id)), Entry(<<"index.js">>, Payload("v1")) >>)

\* file_operations.rs:54  install_zxp called on a valid archive of each identifier
InstallId ==
    /\ \E i \in 1..Len(TargetIds) :
        \E r \in {install_zxp(BundleOf(TargetIds[i]), fs, "none")} :
            /\ fs' = r.fs
            /\ last' = Step("install_id", i, "none", r.result, r.path, FALSE)
    /\ UNCHANGED refresh
    /\ NotifUnchanged
    /\ RestUnchanged

----------------------------------------------------------------------------
(* data_operations.rs: the scan of the extension root *)

\* the entries of directory `dir`
Children(f, dir) == {p \in DOMAIN f : Len(p) = Len(dir) + 1 /\ IsPrefix(dir, p)}

\* the length of a file: the number of items of its content
FileBytes(node) == Len(node.data)

RECURSIVE SumBytes(_, _)
SumBytes(f, ps) ==
    IF ps = {} THEN 0
    ELSE LET p == CHOOSE q \in ps : TRUE
         IN  FileBytes(f[p]) + SumBytes(f, ps \ {p})

\* data_operations.rs:197-212  calculate_folder_size_bytes: the files at every
\* depth below `path` summed up; it fails when `denied`, the directory that
\* cannot be listed, is `path` or lies below it
calculate_folder_size_bytes(f, path, denied) ==
    IF denied # <<>> /\ IsPrefix(path, denied)
    THEN [ok |-> FALSE, bytes |-> 0]
    ELSE [ok |-> TRUE,
          bytes |-> SumBytes(f, {p \in DOMAIN f : IsPrefix(path, p) /\ p # path
                                                    /\ f[p].kind = "file"})]

Kilo == 1024

\* format!("{:.1}", bytes / unit): the tenths of the quotient, a tie rounded to
\* the even tenth
Tenths(bytes, unit) ==
    LET q == (bytes * 10) \div unit
        r == (bytes * 10) % unit
    IN  IF r * 2 > unit \/ (r * 2 = unit /\ q % 2 = 1) THEN q + 1 ELSE q

OneDecimal(t, unit) == [whole |-> t \div 10, frac |-> <<t % 10>>, unit |-> unit]

\* data_operations.rs:214-222  format_size; the text is kept as its number, its
\* decimal and its unit
format_size(bytes) ==
    IF bytes < Kilo THEN [whole |-> bytes, frac |-> <<>>, unit |-> " B"]
    ELSE IF bytes < Kilo * Kilo THEN OneDecimal(Tenths(bytes, Kilo), " KB")
    ELSE OneDecimal(Tenths(bytes, Kilo * Kilo), " MB")

\* data_operations.rs:179  the placeholder "Unknown"
UnknownSize == [whole |-> 0, frac |-> <<>>, unit |-> "Unknown"]

size_text(b) == IF b.ok THEN format_size(b.bytes) ELSE UnknownSize

\* data_operations.rs:174-182
calculate_folder_size(f, path, denied) ==
    size_text(calculate_folder_size_bytes(f, path, denied))

ComAdobe == <<"c","o","m",".","a","d","o","b","e",".">>

\* data_operations.rs:185-191
determine_plugin_type(bundle_id) ==
    IF IsPrefix(ComAdobe, bundle_id) THEN "Native" ELSE "Installed"

\* data_operations.rs:193-195
is_valid_plugin(f, plugin_dir) == Exists(f, plugin_dir \o ManifestRel)

\* a scan that lists a candidate whatever its manifest
plugin_of_any(f, path, info, denied) ==
    {[name |-> info.info.name, version |-> info.info.version,
      size |-> calculate_folder_size(f, path, denied), path |-> path,
      plugin_type |-> determine_plugin_type(info.info.bundle_id)]}

\* data_operations.rs:95-111  the Plugin pushed for a candidate, none when its
\* manifest does not parse; `info` is the outcome of parse_manifest_xml
plugin_of(f, path, info, denied) ==
    IF ~info.ok THEN {}
    ELSE {[name |-> info.info.name, version |-> info.info.version,
           size |-> calculate_folder_size(f, path, denied), path |-> path,
           plugin_type |-> determine_plugin_type(info.info.bundle_id)]}

\* data_operations.rs:81-111  the body of the loop for one entry of the root
scan_entry(f, path, denied) ==
    IF ~IsDir(f, path) THEN {}
    ELSE IF ~is_valid_plugin(f, path) THEN {}
    ELSE plugin_of(f, path, parse_manifest_xml(f, path \o ManifestRel), denied)

ScanErr(e) == [ok |-> FALSE, err |-> e, list |-> {}]

\* data_operations.rs:64-115  scan_cep_plugins.  The Vec it returns holds one
\* Plugin per entry that passes, in the order read_dir yields the entries; it
\* is kept as the set of its elements.  read_dir fails with a permission
\* error on a root that cannot be listed, and with another error, which
\* From<io::Error> (lines 53-61) turns into DirectoryNotFound, on a root that
\* is no directory.
scan_cep_plugins(f, denied) ==
    IF ~Exists(f, CepRoot) THEN [ok |-> TRUE, err |-> "", list |-> {}]
    ELSE IF denied = CepRoot THEN ScanErr("PermissionDenied")
    ELSE IF ~IsDir(f, CepRoot) THEN ScanErr("DirectoryNotFound")
    ELSE [ok |-> TRUE, err |-> "",
          list |-> UNION {scan_entry(f, p, denied) : p \in Children(f, CepRoot)}]

\* the directories at or below the extension root, one of which may refuse to
\* be listed; << >> stands for none
Deniable(f) == {<< >>} \cup {p \in DOMAIN f : IsDir(f, p) /\ IsPrefix(CepRoot, p)}

\* plugins_panel.rs:12-20  the scan resource runs: it reads the refresh token
\* and scans; a failed scan gives the empty list
Rescan ==
    /\ \E denied \in Deniable(fs) :
        \E r \in {scan_cep_plugins(fs, denied)} :
            /\ plugins' = [state |-> "Ready", list |-> r.list]
            /\ last' = Step("scan", 0, IF denied = << >> THEN "none" ELSE "denied",
                            IF r.ok THEN "Ok" ELSE r.err, denied, FALSE)
    /\ observed' = [read |-> TRUE, token |-> refresh, stale |-> FALSE,
                    flag |-> REFRESH_TRIGGER, staleFlag |-> FALSE]
    /\ UNCHANGED <<fs, refresh, REFRESH_TRIGGER, parsed>>
    /\ NotifUnchanged

\* The trees a scan can meet.  Below the root each of the names is absent (0),
\* a regular file (1), a directory without a manifest (2), a bundle with a
\* payload below a subdirectory (3), a bundle whose manifest has no identifier
\* (4), a bundle of Adobe's (5), or a directory whose manifest path is itself a
\* directory (6).
CandidateNames == {"a", "b"}
CandidateShapes == 0..6

ComAdobeX == ComAdobe \o <<"x">>

ShapeFiles(c, k) ==
    CASE k = 1 -> c :> Payload("f")
      [] k = 3 -> (c \o ManifestRel) :> Manifest(ComX)
                    @@ (c \o <<"js", "main.js">>) :> Payload("m")
      [] k = 4 -> (c \o ManifestRel) :> NoIdManifest
      [] k = 5 -> (c \o ManifestRel) :> Manifest(ComAdobeX)
      [] OTHER -> << >>

ShapeDirs(c, k) ==
    CASE k = 2 -> {c}
      [] k = 6 -> {c \o ManifestRel}
      [] OTHER -> {}

ScanTree(shape) ==
    Tree(ShapeFiles(CepRoot \o <<"a">>, shape["a"]) @@ ShapeFiles(CepRoot \o <<"b">>, shape["b"]),
         {CepRoot} \cup ShapeDirs(CepRoot \o <<"a">>, shape["a"])
                   \cup ShapeDirs(CepRoot \o <<"b">>, shape["b"]))

\* the trees with a root directory, one without the root, one where the root
\* path is a regular file
ScanTrees ==
    {ScanTree(shape) : shape \in [CandidateNames -> CandidateShapes]}
    \cup {FsFresh, Tree(CepRoot :> Payload("f"), {})}

----------------------------------------------------------------------------
(* The manifest parser called on the manifests a bundle directory can hold *)

MaxEvents == 2     \* events of a manifest document

IdValues == {<<>>, ComX, YPanelUi}
NameValues == {<<>>, <<"P">>}
VersionValues == {<<>>, V10}

\* an attribute that is absent, or present with one of `values`
OptAttr(key, values) == {<<>>} \cup {<<Attr(key, v)>> : v \in values}

AttrLists ==
    {a \o b \o c : a \in OptAttr("ExtensionBundleId", IdValues),
                   b \in OptAttr("ExtensionBundleName", NameValues),
                   c \in OptAttr("ExtensionBundleVersion", VersionValues)}

\* the events of the documents: <ExtensionManifest ...> with every choice of
\* the three attributes, a self-closing <ExtensionManifest .../>, another
\* element that carries the identifier attribute, an element with an attribute
\* that does not decode, and markup the reader rejects
Elements ==
    {Ev("Start", "ExtensionManifest", as) : as \in AttrLists}
    \cup {Ev("Empty", "ExtensionManifest",
              <<Attr("ExtensionBundleId", ComX), Attr("ExtensionBundleVersion", V10)>>),
          Ev("Start", "Extension", <<Attr("ExtensionBundleId", YPanelUi)>>),
          Ev("Start", "ExtensionManifest", <<Attr("ExtensionBundleId", ComX), BadAttr>>),
          Ev("Err", "", <<>>)}

Docs == UNION {[1..n -> Elements] : n \in 0..MaxEvents}

ManifestPath == OldPlugin \o ManifestRel

\* a bundle directory with each of the documents as its manifest, one without
\* a manifest, and one where the manifest path is a directory
ManifestTrees ==
    {Tree(ManifestPath :> d, {TempDir}) : d \in Docs}
    \cup {Tree(<< >>, {TempDir, OldPlugin}), Tree(<< >>, {TempDir, ManifestPath})}

\* data_operations.rs:117  parse_manifest_xml called on the manifest path
ParseManifest ==
    /\ parsed.state = "none"
    /\ \E r \in {parse_manifest_xml(fs, ManifestPath)} :
        /\ parsed' = [state |-> "done", ok |-> r.ok, err |-> r.err, info |-> r.info]
        /\ last' = Quiet("parse", 0, IF r.ok THEN "Ok" ELSE r.err)
    /\ UNCHANGED <<fs, refresh, REFRESH_TRIGGER, plugins, observed>>
    /\ NotifUnchanged

----------------------------------------------------------------------------

InitNotify ==
    /\ MESSAGE = Cleared
    /\ MESSAGE_CANCEL_TOKEN = 0
    /\ tasks = <<>>
    /\ posted = Cleared
    /\ last = Quiet("init", 0, "")

\* message.rs:31 and plugins_panel.rs:12: the flag is false and the resource
\* has not run
InitScan ==
    /\ REFRESH_TRIGGER = FALSE
    /\ plugins = [state |-> "Loading", list |-> {}]
    /\ parsed = [state |-> "none"]
    /\ observed = [read |-> FALSE, token |-> FALSE, stale |-> FALSE,
                   flag |-> FALSE, staleFlag |-> FALSE]

InitFiles ==
    /\ InitNotify
    /\ InitScan
    /\ refresh = FALSE
    /\ fs \in {FsInstalled, FsFresh}

Init ==
    /\ InitNotify
    /\ InitScan
    /\ refresh = FALSE
    /\ fs = FsInstalled

\* the notification centre driven by the test buttons
NextNotify == TestButton \/ Tick \/ RunTimer

SpecNotify == Init /\ [][NextNotify]_vars

\* install and remove called directly
NextFiles == Install \/ Remove

SpecFiles == InitFiles /\ [][NextFiles]_vars

\* the application: the two handlers and the timers their notifications start
Next == InstallHandler \/ RemoveHandler \/ Tick \/ RunTimer

Spec == Init /\ [][Next]_vars

InitParse ==
    /\ InitNotify
    /\ InitScan
    /\ refresh = FALSE
    /\ fs \in ManifestTrees

\* the parser called on every manifest
NextParse == ParseManifest

SpecParse == InitParse /\ [][NextParse]_vars

InitScanTrees ==
    /\ InitNotify
    /\ InitScan
    /\ refresh = FALSE
    /\ fs \in ScanTrees

\* the scan run on every tree
NextScan == Rescan

SpecScan == InitScanTrees /\ [][NextScan]_vars

\* installs of every identifier, and removes
NextTargets == InstallId \/ Remove

SpecTargets == InitFiles /\ [][NextTargets]_vars

\* the handlers, trigger_refresh and the scan resource
NextRefresh == InstallHandler \/ RemoveHandler \/ TriggerRefresh \/ Rescan

SpecRefresh == Init /\ [][NextRefresh]_vars

\* The scheduler polls every woken task and time advances.
FairSpecNotify == SpecNotify /\ WF_vars(Tick) /\ WF_vars(RunTimer)

----------------------------------------------------------------------------
(* Properties of the notification centre *)

Latest == Len(tasks)

\* the timers that are pending and not cancelled
LiveTimers == {i \in 1..Len(tasks) : Pending(tasks[i]) /\ ~tasks[i].cancelled}

\* a step that is a post: a timer task was spawned
IsPost == Len(tasks') = Len(tasks) + 1

\* a step in which timer task i ran a branch of its select!
Fired(i) == Pending(tasks[i]) /\ ~Pending(tasks'[i])

\* C1: the slot changes only through a post or through the firing of the timer
\* started by the most recent post; the timer of a superseded message never
\* clears or alters it.
C1_SlotOnlyByPostOrOwnTimer ==
    [][MESSAGE' # MESSAGE => IsPost \/ (Latest > 0 /\ Fired(Latest))]_vars

\* C2: at most one timer is pending and not cancelled; the slot is live exactly
\* when there is one; that timer is the one of the most recent post and the one
\* the stored token refers to; every older pending timer has been cancelled.
C2_OneLiveTimer ==
    /\ Cardinality(LiveTimers) <= 1
    /\ (MESSAGE.msg_type # "None") <=> (LiveTimers # {})
    /\ \A i \in LiveTimers : i = Latest /\ MESSAGE_CANCEL_TOKEN = i
    /\ \A i \in 1..Len(tasks) : i < Latest /\ Pending(tasks[i]) => tasks[i].cancelled

\* the slot shows the latest post for as long as that post's timer has not fired
ShowsLatestUntilItsTimer ==
    (Latest > 0 /\ Pending(tasks[Latest])) => (MESSAGE = posted /\ MESSAGE_CANCEL_TOKEN = Latest)

\* a post that no post follows is followed by the cleared slot and token
LastPostExpires ==
    \A n \in 1..MaxPosts :
        (Len(tasks) = n) ~> (Len(tasks) > n \/ (MESSAGE = Cleared /\ MESSAGE_CANCEL_TOKEN = 0))

\* C3: after a post that no post follows, the slot keeps showing that post's
\* text and category until the post's own timer fires, and with the timer task
\* scheduled fairly the slot returns to Idle and the stored token is cleared.
C3_ShownThenExpires == []ShowsLatestUntilItsTimer /\ LastPostExpires

----------------------------------------------------------------------------
(* Properties of the handlers *)

HandlerStep == last'.op \in {"install_handler", "remove_handler"}

\* the step posted exactly one notification, of category `cat`
PostedOne(cat) ==
    /\ IsPost
    /\ tasks'[Len(tasks')].msg_type = cat
    /\ MESSAGE'.msg_type = cat
    /\ MESSAGE_CANCEL_TOKEN' = Len(tasks')

\* C4: every successful install or remove performed by a handler produces
\* exactly one Success notification and one change of the refresh token.
C4_SuccessNotifiesAndRefreshes ==
    [][HandlerStep /\ last'.result = "Ok" => PostedOne("Success") /\ refresh' # refresh]_vars

\* C5: every install or remove performed by a handler that fails with an error
\* other than the dismissed dialog produces exactly one Error notification.
C5_FailureNotifies ==
    [][HandlerStep /\ last'.result \notin {"Ok", "DialogCancelled"} => PostedOne("Error")]_vars

\* C6: a dismissed file dialog leaves the slot, the token, the timers, the
\* refresh token and the filesystem as they were.
C6_CancelChangesNothing ==
    [][last'.op = "install_handler" /\ last'.result = "DialogCancelled"
        => UNCHANGED <<MESSAGE, MESSAGE_CANCEL_TOKEN, tasks, posted, refresh, fs>>]_vars

\* a dialog dismissed while a notification is showing and its timer is pending
C6_Witness ==
    /\ last.op = "install_handler" /\ last.result = "DialogCancelled"
    /\ MESSAGE.msg_type = "Success"
    /\ LiveTimers # {}
    /\ refresh

----------------------------------------------------------------------------
(* Properties of install and remove *)

InstallStep == last'.op = "install"
RemoveStep == last'.op = "remove"

HasManifest(a) == \E i \in 1..Len(a.entries) : a.entries[i].name = ManifestRel

ManifestOf(a) == a.entries[CHOOSE i \in 1..Len(a.entries) : a.entries[i].name = ManifestRel].data

ManifestParses(a) == HasManifest(a) /\ parse_manifest_str(ManifestOf(a)).ok

\* an entry whose path steps above the directory it is relative to
Escapes(name) == \E k \in 1..Len(name) :
    Cardinality({j \in 1..k : name[j] = ".."}) > Cardinality({j \in 1..k : name[j] # ".."})

HasEscapingEntry(a) == \E i \in 1..Len(a.entries) : Escapes(a.entries[i].name)

\* the archive passes steps 1 to 4 of the install
Validates(a) ==
    /\ a.exists
    /\ is_valid_zxp_extension(a.name)
    /\ a.zip
    /\ ManifestParses(a)

TargetOf(a) == PathJoin(CepRoot, split_panel_first(parse_manifest_str(ManifestOf(a)).info.bundle_id))

Same(f, g, p) == (p \in DOMAIN f <=> p \in DOMAIN g) /\ (p \in DOMAIN f => f[p] = g[p])

\* the step changed nothing but what lies under `target`, the directories that
\* lead to it, and the temporary copy of the manifest
OnlyUnder(target) ==
    \A p \in DOMAIN fs \cup DOMAIN fs' :
        Same(fs, fs', p) \/ IsPrefix(target, p) \/ IsPrefix(p, target) \/ p = TempManifest

\* the step changed nothing under the extension root, nor the root
RootUntouched ==
    \A p \in DOMAIN fs \cup DOMAIN fs' : IsPrefix(CepRoot, p) => Same(fs, fs', p)

\* C7 as stated: every archive with an entry that steps out of the target
\* directory makes install fail with ExtractError (no I/O failure intervening),
\* and nothing is written outside the target directory.
C7_EscapeAlwaysExtractError ==
    [][InstallStep /\ HasEscapingEntry(Archives[last'.arg]) /\ last'.fault = "none"
        => /\ last'.result = "ExtractError"
           /\ \/ ~ManifestParses(Archives[last'.arg])
              \/ OnlyUnder(TargetOf(Archives[last'.arg]))]_vars

\* C7 (amended): install of an archive with an entry that steps out of the
\* target directory never succeeds; it fails with ExtractError whenever the
\* archive passes validation and the target directory is created; and in every
\* case nothing is created or changed but under the target directory (the
\* directories leading to it and the temporary manifest copy aside).
C7_EscapeRejected ==
    [][InstallStep /\ HasEscapingEntry(Archives[last'.arg])
        => /\ last'.result # "Ok"
           /\ (Validates(Archives[last'.arg]) /\ last'.fault \in {"none", "extract_io"}
                    /\ IsDir(fs', TargetOf(Archives[last'.arg])))
                => last'.result = "ExtractError"
           /\ IF ManifestParses(Archives[last'.arg])
              THEN OnlyUnder(TargetOf(Archives[last'.arg]))
              ELSE RootUntouched]_vars

\* an install that met an escaping entry below a subdirectory after it had
\* written the entries before it
C7_Witness ==
    /\ last.op = "install" /\ last.arg = 12 /\ last.fault = "none"
    /\ last.result = "ExtractError"
    /\ IsFile(fs, CepRoot \o <<"com.x", "index.js">>)
    /\ ~Exists(fs, CepRoot \o <<"evil.js">>)

\* C8: installing the same valid archive twice in immediate succession: the
\* second install succeeds as the first did, returns the same path and leaves
\* the files as the first left them.
C8_InstallIdempotent ==
    [][(/\ last.op = "install" /\ last.result = "Ok"
        /\ InstallStep /\ last'.arg = last.arg /\ last'.fault = "none")
        => /\ last'.result = "Ok"
           /\ last'.path = last.path
           /\ fs' = fs]_vars

\* the second of two successive installs of one archive, both successful
C8_Witness ==
    /\ last.op = "install" /\ last.repeat /\ last.result = "Ok"
    /\ last.arg = 2
    /\ IsFile(fs, last.path \o <<"js", "main.js">>)

ExtIsZxp(a) == to_lowercase(extension(a.name).ext) = Zxp

\* the archive fails one of the checks the claim lists, and no I/O failure
\* comes before that check
FailsValidation(a, fault) ==
    \/ ~a.exists
    \/ ~ExtIsZxp(a)
    \/ fault # "open" /\ ~a.zip
    \/ fault # "open" /\ ~HasManifest(a)
    \/ fault \notin {"open", "tmp_write"} /\ ~ManifestParses(a)

\* the error the claim gives an archive that fails validation: that of the
\* first check it fails
ValidationError(a) ==
    IF ~a.exists THEN "FileNotFound"
    ELSE IF ~ExtIsZxp(a) THEN "InvalidExtension"
    ELSE "InvalidZip"

\* C9: install validates in a fixed order: a path that does not exist gives
\* FileNotFound whatever its extension; an existing file whose extension is
\* not zxp in any case gives InvalidExtension; a file that is no zip, has no
\* CSXS/manifest.xml or whose manifest does not parse gives InvalidZip; and in
\* each of these cases nothing under the extension root is created or changed.
C9_ValidationOrder ==
    [][InstallStep /\ FailsValidation(Archives[last'.arg], last'.fault)
        => /\ last'.result = ValidationError(Archives[last'.arg])
           /\ RootUntouched]_vars

\* an install that got as far as the manifest of an archive whose manifest has
\* no bundle id, on a machine with bundles installed
C9_Witness ==
    /\ last.op = "install" /\ last.arg = 10 /\ last.fault = "none"
    /\ last.result = "InvalidZip"
    /\ IsFile(fs, TempManifest)
    /\ IsDir(fs, OldPlugin)

\* C10: remove gives FileNotFound for a path that does not exist and
\* InvalidExtension for one that is no directory, and changes nothing in both
\* cases; deletion is attempted for an existing directory only, and its failure
\* is PermissionDenied for a permission error, ExtractError for any other.
C10_RemoveChecks ==
    [][RemoveStep =>
        LET p == RemovePaths[last'.arg]
        IN  /\ ~Exists(fs, p) => last'.result = "FileNotFound" /\ fs' = fs
            /\ Exists(fs, p) /\ ~IsDir(fs, p) => last'.result = "InvalidExtension" /\ fs' = fs
            /\ fs' # fs => IsDir(fs, p)
            /\ IsDir(fs, p) =>
                 /\ last'.fault = "denied" => last'.result = "PermissionDenied"
                 /\ last'.fault = "other" => last'.result = "ExtractError"
                 /\ last'.fault = "none" =>
                        /\ last'.result = "Ok"
                        /\ \A q \in DOMAIN fs' : ~IsPrefix(p, q)
                        /\ \A q \in DOMAIN fs : ~IsPrefix(p, q) => Same(fs, fs', q)]_vars

\* a remove asked to delete a regular file, which is still there
C10_Witness ==
    /\ last.op = "remove" /\ last.arg = 4
    /\ last.result = "InvalidExtension"
    /\ IsFile(fs, RemovePaths[4])

----------------------------------------------------------------------------
(* Properties of the scan *)

ScanStep == last.op = "scan"

\* the directory the scan could not list, << >> if there was none
Denied == last.path

\* the immediate subdirectories of the root that contain CSXS/manifest.xml and
\* whose manifest parses
Bundles ==
    {c \in Children(fs, CepRoot) :
        /\ IsDir(fs, c)
        /\ IsFile(fs, c \o ManifestRel)
        /\ parse_manifest_str(fs[c \o ManifestRel].data).ok}

\* the list holds exactly one Plugin per bundle, with the name and version of
\* its manifest, and with the placeholder size exactly where the size could
\* not be computed
ListsTheBundles ==
    /\ {pl.path : pl \in plugins.list} = Bundles
    /\ Cardinality(plugins.list) = Cardinality(Bundles)
    /\ \A pl \in plugins.list :
        /\ pl.name = parse_manifest_str(fs[pl.path \o ManifestRel].data).info.name
        /\ pl.version = parse_manifest_str(fs[pl.path \o ManifestRel].data).info.version
        /\ (pl.size = UnknownSize) <=> (Denied # << >> /\ IsPrefix(pl.path, Denied))

RootListable == ~Exists(fs, CepRoot) \/ (IsDir(fs, CepRoot) /\ Denied # CepRoot)

----------------------------------------------------------------------------
(* Properties of the manifest parser *)

\* the parser has run on a manifest file
Parsed == parsed.state = "done" /\ IsFile(fs, ManifestPath)

TheDoc == fs[ManifestPath].data

\* the document is one the reader reads to its end
Readable(doc) ==
    \A i \in 1..Len(doc) :
        doc[i].kind # "Err" /\ \A j \in 1..Len(doc[i].attrs) : ~doc[i].attrs[j].bad

\* event i is an ExtensionManifest element, written with or without content
IsManifestElement(doc, i) ==
    doc[i].name = "ExtensionManifest" /\ doc[i].kind \in {"Start", "Empty"}

\* the values attribute `key` has on event i
ValuesAt(doc, i, key) ==
    {doc[i].attrs[j].value : j \in {k \in 1..Len(doc[i].attrs) : doc[i].attrs[k].key = key}}

\* the non-empty identifiers the ExtensionManifest elements of the document carry
IdsCarried(doc) ==
    UNION {ValuesAt(doc, i, "ExtensionBundleId") \ {<<>>} :
             i \in {k \in 1..Len(doc) : IsManifestElement(doc, k)}}

\* C12: a readable manifest that carries a non-empty ExtensionBundleId on its
\* ExtensionManifest element parses, and the identifier returned is the one
\* carried; a readable manifest without one fails with InvalidManifest.
C12_IdReturnedOrInvalid ==
    Parsed /\ Readable(TheDoc) =>
        IF IdsCarried(TheDoc) # {}
        THEN parsed.ok /\ parsed.info.bundle_id \in IdsCarried(TheDoc)
        ELSE ~parsed.ok /\ parsed.err = "InvalidManifest"

\* the ExtensionManifest start tags that carry attribute `key`
Carriers(doc, key) ==
    {i \in 1..Len(doc) : /\ doc[i].kind = "Start"
                         /\ doc[i].name = "ExtensionManifest"
                         /\ ValuesAt(doc, i, key) # {}}

\* the value of attribute `key` on the last start tag that carries it
LastValue(doc, key) ==
    LET i == CHOOSE k \in Carriers(doc, key) : \A m \in Carriers(doc, key) : m <= k
    IN  CHOOSE v \in ValuesAt(doc, i, key) : TRUE

\* C13 as stated: when parsing succeeds the identifier is non-empty, the version
\* is "Unknown" if ExtensionBundleVersion is omitted and the attribute's value
\* otherwise, and the name is the identifier if ExtensionBundleName is omitted
\* and the attribute's value otherwise.
C13_DefaultsOnlyIfOmitted ==
    Parsed /\ parsed.ok =>
        /\ parsed.info.bundle_id # <<>>
        /\ parsed.info.version =
              IF Carriers(TheDoc, "ExtensionBundleVersion") = {} THEN Unknown
              ELSE LastValue(TheDoc, "ExtensionBundleVersion")
        /\ parsed.info.name =
              IF Carriers(TheDoc, "ExtensionBundleName") = {} THEN parsed.info.bundle_id
              ELSE LastValue(TheDoc, "ExtensionBundleName")

\* attribute `key` is omitted or carries the empty value
Blank(doc, key) == Carriers(doc, key) = {} \/ LastValue(doc, key) = <<>>

\* C13 (amended): when parsing succeeds the identifier is non-empty, the version
\* is "Unknown" if ExtensionBundleVersion is omitted or empty and the
\* attribute's value otherwise, and the name is the identifier if
\* ExtensionBundleName is omitted or empty and the attribute's value otherwise.
C13_DefaultsIfOmittedOrEmpty ==
    Parsed /\ parsed.ok =>
        /\ parsed.info.bundle_id # <<>>
        /\ parsed.info.version =
              IF Blank(TheDoc, "ExtensionBundleVersion") THEN Unknown
              ELSE LastValue(TheDoc, "ExtensionBundleVersion")
        /\ parsed.info.name =
              IF Blank(TheDoc, "ExtensionBundleName") THEN parsed.info.bundle_id
              ELSE LastValue(TheDoc, "ExtensionBundleName")

\* a manifest with an identifier, a name and an empty version attribute, parsed
C13_Witness ==
    /\ Parsed /\ parsed.ok
    /\ Len(TheDoc) = 1
    /\ ValuesAt(TheDoc, 1, "ExtensionBundleVersion") = {<<>>}
    /\ ValuesAt(TheDoc, 1, "ExtensionBundleName") = {<<"P">>}
    /\ parsed.info.version = Unknown
    /\ parsed.info.name = <<"P">>

\* the ExtensionManifest elements that carry a non-empty identifier
Identified(doc) ==
    {i \in 1..Len(doc) : IsManifestElement(doc, i)
                         /\ ValuesAt(doc, i, "ExtensionBundleId") \ {<<>>} # {}}

FirstIdentified(doc) == CHOOSE k \in Identified(doc) : \A m \in Identified(doc) : k <= m

\* C14: parsing stops at the first ExtensionManifest element with a non-empty
\* identifier: the result is the one the document cut after that element
\* gives, whatever follows the element.
C14_StopsAtFirstIdentified ==
    Parsed /\ Identified(TheDoc) # {} =>
        \E r \in {parse_manifest_str(SubSeq(TheDoc, 1, FirstIdentified(TheDoc)))} :
            /\ parsed.ok = r.ok
            /\ parsed.err = r.err
            /\ parsed.info = r.info

----------------------------------------------------------------------------
(* Properties of the install target and of the refresh token *)

StrictlyBelow(root, p) == IsPrefix(root, p) /\ Len(p) > Len(root)

\* C15: for every identifier the parser accepts, a successful install returns
\* the directory of the extension root that is named by the identifier cut at
\* its first ".panel": a path strictly below the root, never the root itself
\* nor a place outside it.
C15_TargetBelowRoot ==
    last.op = "install_id" /\ last.result = "Ok" =>
        /\ StrictlyBelow(CepRoot, Resolve(last.path))
        /\ Resolve(last.path) = CepRoot \o <<Str(split_panel_first(TargetIds[last.arg]))>>

\* C16: whenever the refresh token, or the global flag, was toggled since the
\* scan resource read it, its value differs from the value read.
C16_TokenDetectsRefresh ==
    observed.read =>
        /\ observed.stale => refresh # observed.token
        /\ observed.staleFlag => REFRESH_TRIGGER # observed.flag

====
